---------------------------- MODULE Spec2Model ----------------------------
(***************************************************************************)
(* A model of QuantumPredictionEngine (src/src/data/quantumPredictionEngine *)
(* .ts): the unique-number sampler generateQuantumRandomNumbers, the       *)
(* prediction-set builder that calls it, and the engine fields the sampler *)
(* could touch.  Math.random() is an input: every value the arithmetic of  *)
(* a loop iteration can produce from three draws is a possible iteration.  *)
(***************************************************************************)
EXTENDS Integers, Sequences, FiniteSets, TLC

\* ------------------------------------------------------------------ bounds
\* Largest count a direct sampler request asks for (counts start at -1).
MaxCount == 3
\* Largest lower end of a requested range (lower ends start at 1).
MaxMin == 2
\* Largest upper end of a requested range (upper ends start at 0).
MaxVal == 3
\* The iteration counter iters saturates here; it only observes the loop.
MaxIter == 4
\* Most fetchLotteryData calls awaiting their data at one time.
MaxPending == 2
\* Most setInterval timers the data service creates in one run.
MaxTimers == 2

\* ------------------------------------------------------------- arithmetic
Min2(a, b) == IF a < b THEN a ELSE b

Max2(a, b) == IF a > b THEN a ELSE b

SeqToSet(s) == {s[i] : i \in 1..Len(s)}

\* Array.prototype.sort((a, b) => a - b): the ascending arrangement of s.
RECURSIVE InsertSorted(_, _)
InsertSorted(x, s) ==
    IF s = <<>> THEN <<x>>
    ELSE IF x <= Head(s) THEN <<x>> \o s
    ELSE <<Head(s)>> \o InsertSorted(x, Tail(s))

RECURSIVE SortAscending(_)
SortAscending(s) ==
    IF s = <<>> THEN <<>> ELSE InsertSorted(Head(s), SortAscending(Tail(s)))

\* ------------------------------------------------------------------ state
VARIABLES
    config,                \* private config: QuantumPredictionConfig, key -> value
    lotteryConfigurations, \* private lotteryConfigurations: Record<LotteryType, any>
    historicalData,        \* private historicalData: any[], keyed by lottery type
    featureMatrix,         \* private featureMatrix: number[][]
    pc,             \* position of the running call
    caller,         \* who called the sampler: "direct", "numbers" or "bonus"
    count, min, max,\* arguments of the running generateQuantumRandomNumbers call
    actualCount,    \* const actualCount
    result,         \* const result: number[]
    used,           \* const used: Record<number, boolean>, as the set of true keys
    iters,          \* loop iterations of the running sampler call so far (observer)
    ret,            \* what the call that has just returned handed to its caller
    lotteryType,    \* generatePrediction's argument
    lotteryConfig,  \* const lotteryConfig of generatePrediction
    numbers, bonus, \* let numbers, let bonus of generatePredictionSet
    primaryPrediction, \* const primaryPrediction of generatePrediction
    alternativeSets,   \* const alternativeSets of generatePrediction
    prevCall,       \* observer: the request and result of an earlier direct call
    predictions,    \* useQuantumPrediction: const [predictions, setPredictions]
    loading,        \* useQuantumPrediction: const [loading, setLoading]
    error,          \* useQuantumPrediction: const [error, setError]
    parameters,     \* useQuantumPrediction: const [parameters, setParameters]
    lastFetch,      \* observer: the setState calls of the latest fetchPredictions
    activeModule,   \* App: const [activeModule, setActiveModule]
    currentTime,    \* ScheduleModule: const [currentTime, setCurrentTime]
    lastClicked,    \* observer: the navigation item activated last
    dataCache,      \* LotteryDataService: private dataCache
    statsCache,     \* LotteryDataService: private statsCache
    refreshIntervals, \* LotteryDataService: private refreshIntervals
    activeTimers,   \* the setInterval timers that are not cleared
    pending,        \* the fetchLotteryData calls awaiting mockFetchData, oldest first
    nextTimerId,    \* the id the next setInterval returns
    disposed        \* observer: dispose() was called and initializeDataSource not since

engineVars == <<config, lotteryConfigurations, historicalData, featureMatrix>>

samplerVars == <<count, min, max, actualCount, result, used, iters>>

predictionVars ==
    <<lotteryType, lotteryConfig, numbers, bonus, primaryPrediction, alternativeSets>>

hookVars == <<predictions, loading, error, parameters, lastFetch>>

appVars == <<activeModule, currentTime, lastClicked>>

serviceVars ==
    <<dataCache, statsCache, refreshIntervals, activeTimers, pending, nextTimerId,
      disposed>>

\* The state outside the engine: the hook, the App and the data service.
otherVars == <<hookVars, appVars, serviceVars>>

\* The engine's calls in progress, and the observer of direct calls.
callVars == <<pc, caller, samplerVars, ret, predictionVars, prevCall>>

vars ==
    <<engineVars, pc, caller, samplerVars, ret, predictionVars, prevCall, otherVars>>

None == "none"

\* ret while no call has returned: an array that no call returns, so that ret
\* is an array in every state of the sampler.
NoResult == <<0 - 1>>

\* A PredictionSet-typed local that is not assigned yet.
NoSet == [unset |-> TRUE]

\* No earlier direct call is on record.
NoCall == [unset |-> TRUE]

\* ------------------------------------------------------------ engine data
\* {...a, ...b}: the keys of both, b's value where b has the key.
Spread(a, b) ==
    [k \in (DOMAIN a) \cup (DOMAIN b) |-> IF k \in DOMAIN b THEN b[k] ELSE a[k]]

\* A destructuring default: const { k = d } = r.
Field(r, k, d) == IF k \in DOMAIN r THEN r[k] ELSE d

\* defaultQuantumConfig; the fractions are written in hundredths.
defaultQuantumConfig ==
    [kernelParams |-> [entanglementDepth |-> 3,
                       quantumCircuitLayers |-> 2,
                       featureMap |-> "PauliFeatureMap",
                       kernelType |-> "hybrid",
                       optimizationLevel |-> 2],
     ensembleSize |-> 5,
     confidenceThreshold |-> 85,
     historicalDataWeight |-> 70,
     quantumNoiseModel |-> "depolarizing",
     adaptiveLearningRate |-> 1,
     featureEngineeringDepth |-> 3]

supportedLotteries ==
    {"emirates_mega7", "emirates_easy6", "us_powerball", "euro_millions", "india_lotto"}

\* Mutant: euro_millions asks for two special numbers out of one.
getLotteryConfigurationNarrow(lt) ==
    IF lt = "euro_millions"
    THEN [numberCount |-> 5, numberRange |-> 50, specialNumbers |-> TRUE,
          specialNumberCount |-> 2, specialNumberRange |-> 1,
          drawFrequency |-> "twice-weekly", historicalDataDepth |-> 150]
    ELSE [numberCount |-> 6, numberRange |-> 49, specialNumbers |-> FALSE,
          drawFrequency |-> "weekly", historicalDataDepth |-> 100]

\* getLotteryConfiguration(lt)
getLotteryConfiguration(lt) ==
    CASE lt = "emirates_mega7" ->
           [numberCount |-> 7, numberRange |-> 49, specialNumbers |-> FALSE,
            drawFrequency |-> "weekly", historicalDataDepth |-> 100]
      [] lt = "emirates_easy6" ->
           [numberCount |-> 6, numberRange |-> 42, specialNumbers |-> FALSE,
            drawFrequency |-> "weekly", historicalDataDepth |-> 100]
      [] lt = "us_powerball" ->
           [numberCount |-> 5, numberRange |-> 69, specialNumbers |-> TRUE,
            specialNumberCount |-> 1, specialNumberRange |-> 26,
            drawFrequency |-> "twice-weekly", historicalDataDepth |-> 200]
      [] lt = "euro_millions" ->
           [numberCount |-> 5, numberRange |-> 50, specialNumbers |-> TRUE,
            specialNumberCount |-> 2, specialNumberRange |-> 12,
            drawFrequency |-> "twice-weekly", historicalDataDepth |-> 150]
      [] lt = "india_lotto" ->
           [numberCount |-> 6, numberRange |-> 49, specialNumbers |-> FALSE,
            drawFrequency |-> "weekly", historicalDataDepth |-> 80]
      [] OTHER ->
           [numberCount |-> 6, numberRange |-> 49, specialNumbers |-> FALSE,
            drawFrequency |-> "weekly", historicalDataDepth |-> 100]

\* initializeLotteryConfigurations()
initializeLotteryConfigurations ==
    [lt \in supportedLotteries |-> getLotteryConfiguration(lt)]

RECURSIVE SumSeq(_)
SumSeq(s) == IF s = <<>> THEN 0 ELSE Head(s) + SumSeq(Tail(s))

RECURSIVE MinSeq(_)
MinSeq(s) == IF Len(s) = 1 THEN s[1] ELSE Min2(Head(s), MinSeq(Tail(s)))

RECURSIVE MaxSeq(_)
MaxSeq(s) == IF Len(s) = 1 THEN s[1] ELSE Max2(Head(s), MaxSeq(Tail(s)))

\* engineerFeatures(data) as loadHistoricalData calls it (no lotteryType, so
\* lotteryConfig is null and mainNumbers is numbers).  The mean is the fraction
\* <<sum, n>>, the variance the fraction <<n * sum of squares - sum^2, n^2>>.
engineerFeatures(data) ==
    [d \in 1..Len(data) |->
        LET ns == data[d].numbers
            n == Len(ns)
            sum == SumSeq(ns)
            squares == SumSeq([j \in 1..n |-> ns[j] * ns[j]])
        IN  <<<<sum, n>>, <<n * squares - sum * sum, n * n>>,
              MinSeq(ns), MaxSeq(ns), MaxSeq(ns) - MinSeq(ns), data[d].drawNumber>>]

\* --------------------------------------------------------------- sampler
\* const possibleNumbers = max - min + 1
possibleNumbers(mn, mx) == mx - mn + 1

\* Mutant: the clamp is one short, Math.min(count, max - min).
ActualCountShort(c, mn, mx) == Min2(c, mx - mn)

\* Mutant: Math.max in place of Math.min.
ActualCountLarger(c, mn, mx) == Max2(c, possibleNumbers(mn, mx))

\* Math.min(count, possibleNumbers)
ActualCount(c, mn, mx) == Min2(c, possibleNumbers(mn, mx))

\* quantumFactor = sin(r1*r2*PI) * cos(r3*PI) + 0.5 with r1, r2, r3 in [0, 1):
\* the sine lies in [0, 1] and the cosine in (-1, 1], so quantumFactor ranges
\* over (-0.5, 1.5].  num = Math.floor(min + quantumFactor * (max - min + 1))
\* then ranges over the integers below (n = max - min + 1 may be <= 0).
CandidateNums(mn, mx) ==
    LET n == possibleNumbers(mn, mx)
    IN  IF n > 0 THEN (mn - ((n + 1) \div 2)) .. (mn + ((3 * n) \div 2))
        ELSE IF n = 0 THEN {mn}
        ELSE (mn + ((3 * n) \div 2)) .. (mn + (((0 - n) - 1) \div 2))

\* Mutant: the !used[num] test is missing.
AcceptsRepeats(num, mn, mx, u) == num >= mn /\ num <= mx

\* Mutant: the num <= max test is missing.
AcceptsAboveMax(num, mn, mx, u) == num >= mn /\ num \notin u

\* Mutant: num > min in place of num >= min.
AcceptsAboveMin(num, mn, mx, u) == num > mn /\ num <= mx /\ num \notin u

\* if (num >= min && num <= max && !used[num])
Accepts(num, mn, mx, u) == num >= mn /\ num <= mx /\ num \notin u

\* Mutant: result.length <= actualCount.
LoopConditionInclusive(r, ac) == Len(r) <= ac

\* while (result.length < actualCount)
LoopCondition(r, ac) == Len(r) < ac

\* The locals of a finished call are gone: nothing is kept between calls.
NoSamplerFrame ==
    /\ caller' = None
    /\ count' = 0 /\ min' = 0 /\ max' = 0
    /\ actualCount' = 0
    /\ result' = <<>>
    /\ used' = {}
    /\ iters' = 0

NoFrame ==
    /\ NoSamplerFrame
    /\ ret' = NoResult
    /\ lotteryType' = None
    /\ lotteryConfig' = None
    /\ numbers' = <<>>
    /\ bonus' = <<>>
    /\ primaryPrediction' = NoSet
    /\ alternativeSets' = <<>>

\* An object or Map without a key.
NoEntries == [k \in {} |-> 0]

\* Mutant: the hook's parameters carry an ensembleSize.
initialParametersWithEnsemble ==
    [entanglementDepth |-> 3, shotCount |-> 1000, featureMap |-> "ZZFeatureMap",
     optimizationLevel |-> 1, ensembleSize |-> 3]

\* useState<QuantumParameters>({...}) in useQuantumPrediction
initialParameters ==
    [entanglementDepth |-> 3, shotCount |-> 1000, featureMap |-> "ZZFeatureMap",
     optimizationLevel |-> 1]

\* fetchPredictions was not called yet.
NoFetch == [lotteryType |-> None, threw |-> FALSE, loading |-> <<>>, error |-> <<>>]

\* ScheduleModule is not mounted, so there is no currentTime.
NoTime == 0 - 1

\* new QuantumPredictionEngine(), called without a config; the first render of
\* useQuantumPrediction and of App; the lotteryDataService singleton.
Init ==
    /\ config = Spread(defaultQuantumConfig, [k \in {} |-> 0])
    /\ lotteryConfigurations = initializeLotteryConfigurations
    /\ historicalData = [k \in {} |-> <<>>]
    /\ featureMatrix = <<>>
    /\ pc = "idle"
    /\ caller = None
    /\ count = 0 /\ min = 0 /\ max = 0
    /\ actualCount = 0
    /\ result = <<>>
    /\ used = {}
    /\ iters = 0
    /\ ret = NoResult
    /\ lotteryType = None
    /\ lotteryConfig = None
    /\ numbers = <<>>
    /\ bonus = <<>>
    /\ primaryPrediction = NoSet
    /\ alternativeSets = <<>>
    /\ prevCall = NoCall
    /\ predictions = NoEntries
    /\ loading = FALSE
    /\ error = None
    /\ parameters = initialParameters
    /\ lastFetch = NoFetch
    /\ activeModule = "quantum"
    /\ currentTime = NoTime
    /\ lastClicked = None
    /\ dataCache = NoEntries
    /\ statsCache = NoEntries
    /\ refreshIntervals = NoEntries
    /\ activeTimers = {}
    /\ pending = <<>>
    /\ nextTimerId = 1
    /\ disposed = FALSE

\* The statements of generateQuantumRandomNumbers(c, mn, mx) before its loop.
\* No caller passes lotteryType, so lotteryConfig is null there and the draw
\* is not post-processed.
EnterSampler(c, mn, mx) ==
    /\ count' = c /\ min' = mn /\ max' = mx
    /\ result' = <<>>
    /\ used' = {}
    /\ actualCount' = ActualCount(c, mn, mx)
    /\ iters' = 0
    /\ pc' = "loop"

\* A call of the sampler on its own, with any request.
CallSampler(c, mn, mx) ==
    /\ pc = "idle"
    /\ EnterSampler(c, mn, mx)
    /\ caller' = "direct"
    /\ UNCHANGED <<engineVars, ret, predictionVars, prevCall, otherVars>>

\* One iteration of the while loop, in which the three draws yield num.
LoopIteration(num) ==
    /\ pc = "loop"
    /\ LoopCondition(result, actualCount)
    /\ num \in CandidateNums(min, max)
    /\ IF Accepts(num, min, max, used)
       THEN /\ used' = used \cup {num}
            /\ result' = Append(result, num)
       ELSE UNCHANGED <<used, result>>
    /\ iters' = Min2(iters + 1, MaxIter)
    /\ UNCHANGED <<engineVars, pc, caller, count, min, max, actualCount, ret,
                   predictionVars, prevCall, otherVars>>

\* The loop condition fails: return result (to a direct caller).
ReturnResult ==
    /\ pc = "loop"
    /\ caller = "direct"
    /\ ~LoopCondition(result, actualCount)
    /\ ret' = result
    /\ pc' = "returned"
    /\ UNCHANGED <<engineVars, caller, samplerVars, predictionVars, prevCall, otherVars>>

\* The direct caller has its array; the call's locals are gone.
Resume ==
    /\ pc = "returned"
    /\ pc' = "idle"
    /\ NoFrame
    /\ UNCHANGED <<engineVars, prevCall, otherVars>>

\* Resume, with the finished call put on record for comparison with the next.
ResumeRecording ==
    /\ pc = "returned"
    /\ prevCall' = [count |-> count, min |-> min, max |-> max, ret |-> ret]
    /\ pc' = "idle"
    /\ NoFrame
    /\ UNCHANGED <<engineVars, otherVars>>

\* ---------------------------------------------- generateFeatureImportance
\* Math.random() lies in [0, 1); a draw is written in thousandths, 0..999, and
\* a feature importance in ten-thousandths.
\* const baseImportance
baseImportance ==
    [frequency |-> 3500, recency |-> 2500, entropy |-> 2000, cooccurrence |-> 1500,
     seasonality |-> 500]

\* const variation = 0.1
variation == 1000

\* Math.random() * variation * 2 - variation, for the draw r
Jitter(r) == (r * variation * 2) \div 1000 - variation

\* Mutant: the value is returned as computed, without Math.min and Math.max.
ClampImportanceMissing(v) == v

\* Math.min(0.95, Math.max(0.05, v))
ClampImportance(v) == Min2(9500, Max2(500, v))

\* Mutant: the frequency entry is computed from the first number of the
\* primary prediction.
generateFeatureImportanceOfNumbers(lt, rnd) ==
    [k \in DOMAIN baseImportance |->
        IF k = "frequency" /\ primaryPrediction # NoSet
        THEN ClampImportance(1000 * SumSeq(primaryPrediction.numbers))
        ELSE ClampImportance(baseImportance[k] + Jitter(rnd[k]))]

\* generateFeatureImportance(lt), with rnd[k] the draw taken for the entry k
generateFeatureImportance(lt, rnd) ==
    [k \in DOMAIN baseImportance |-> ClampImportance(baseImportance[k] + Jitter(rnd[k]))]

\* ------------------------------------------------------ generatePrediction
\* TLC cannot enumerate 7 of 49: a configured request is cut to at most 2 of 3
\* main numbers and 2 of 2 bonus numbers.  Direct calls exercise the sampler
\* on every request up to the bounds.
Shrink(cfg) ==
    [k \in DOMAIN cfg |->
        CASE k = "numberCount" -> Min2(cfg[k], 2)
          [] k = "numberRange" -> Min2(cfg[k], 3)
          [] k = "specialNumberCount" -> Min2(cfg[k], 2)
          [] k = "specialNumberRange" -> Min2(cfg[k], 2)
          [] OTHER -> cfg[k]]

\* Mutant: generatePrediction caches the configuration it looked up in
\* this.lotteryConfigurations.
GeneratePredictionCaching(lt) ==
    /\ pc = "idle"
    /\ lotteryType' = lt
    /\ lotteryConfig' = Shrink(getLotteryConfiguration(lt))
    /\ lotteryConfigurations' =
           Spread(lotteryConfigurations, [k \in {lt} |-> getLotteryConfiguration(lt)])
    /\ primaryPrediction' = NoSet
    /\ alternativeSets' = <<>>
    /\ pc' = "set"
    /\ UNCHANGED <<config, historicalData, featureMatrix, caller, samplerVars, ret,
                   numbers, bonus, prevCall, otherVars>>

\* generatePrediction(lt, targetDate) up to its first generatePredictionSet.
GeneratePrediction(lt) ==
    /\ pc = "idle"
    /\ lotteryType' = lt
    /\ lotteryConfig' = Shrink(getLotteryConfiguration(lt))
    /\ primaryPrediction' = NoSet
    /\ alternativeSets' = <<>>
    /\ pc' = "set"
    /\ UNCHANGED <<engineVars, caller, samplerVars, ret, numbers, bonus, prevCall,
                   otherVars>>

\* generatePredictionSet(id, strategy, lotteryType, lotteryConfig) up to its
\* call generateQuantumRandomNumbers(numberCount, 1, numberRange).
GeneratePredictionSet ==
    /\ pc = "set"
    /\ numbers' = <<>>
    /\ bonus' = <<>>
    /\ EnterSampler(lotteryConfig.numberCount, 1, lotteryConfig.numberRange)
    /\ caller' = "numbers"
    /\ UNCHANGED <<engineVars, ret, lotteryType, lotteryConfig, primaryPrediction,
                   alternativeSets, prevCall, otherVars>>

\* numbers = this.generateQuantumRandomNumbers(...)
ReturnNumbers ==
    /\ pc = "loop"
    /\ caller = "numbers"
    /\ ~LoopCondition(result, actualCount)
    /\ numbers' = result
    /\ pc' = "special"
    /\ NoSamplerFrame
    /\ UNCHANGED <<engineVars, ret, lotteryType, lotteryConfig, bonus,
                   primaryPrediction, alternativeSets, prevCall, otherVars>>

\* if (specialNumbers && specialNumberCount > 0)
WantsBonus(cfg) == cfg.specialNumbers /\ Field(cfg, "specialNumberCount", 0) > 0

\* bonus = this.generateQuantumRandomNumbers(specialNumberCount, 1, specialNumberRange)
CallBonus ==
    /\ pc = "special"
    /\ WantsBonus(lotteryConfig)
    /\ EnterSampler(Field(lotteryConfig, "specialNumberCount", 0), 1,
                    Field(lotteryConfig, "specialNumberRange", 0))
    /\ caller' = "bonus"
    /\ UNCHANGED <<engineVars, ret, predictionVars, prevCall, otherVars>>

ReturnBonus ==
    /\ pc = "loop"
    /\ caller = "bonus"
    /\ ~LoopCondition(result, actualCount)
    /\ bonus' = result
    /\ pc' = "build"
    /\ NoSamplerFrame
    /\ UNCHANGED <<engineVars, ret, lotteryType, lotteryConfig, numbers,
                   primaryPrediction, alternativeSets, prevCall, otherVars>>

SkipBonus ==
    /\ pc = "special"
    /\ ~WantsBonus(lotteryConfig)
    /\ pc' = "build"
    /\ UNCHANGED <<engineVars, caller, samplerVars, ret, predictionVars, prevCall,
                   otherVars>>

\* const confidence = 90 + Math.random() * 9, in thousandths, for the draw r
Confidence(r) == 90000 + r * 9

\* Mutant: the two lists are stored as the sampler returned them.
PredictionSetUnsorted(ns, bs, r) ==
    [numbers |-> ns, bonus |-> bs, confidence |-> Confidence(r)]

\* The PredictionSet generatePredictionSet returns.  Its id, name, strategy,
\* rationale and expectedValue are strings and a further draw that nothing
\* reads back; the model keeps the two number lists and the confidence.
PredictionSet(ns, bs, r) ==
    [numbers |-> SortAscending(ns), bonus |-> SortAscending(bs),
     confidence |-> Confidence(r)]

\* for (let i = 0; i < this.config.ensembleSize; i++)
MoreSets(alts, cfg) == Len(alts) < cfg.ensembleSize

\* generatePredictionSet returns, with the draw r for its confidence;
\* generatePrediction stores the set as the primary prediction or pushes it to
\* alternativeSets, and tests its loop.
StorePredictionSet(r) ==
    /\ pc = "build"
    /\ IF primaryPrediction = NoSet
       THEN /\ primaryPrediction' = PredictionSet(numbers, bonus, r)
            /\ UNCHANGED alternativeSets
       ELSE /\ alternativeSets' = Append(alternativeSets, PredictionSet(numbers, bonus, r))
            /\ UNCHANGED primaryPrediction
    /\ pc' = IF MoreSets(alternativeSets', config) THEN "set" ELSE "finish"
    /\ numbers' = <<>>
    /\ bonus' = <<>>
    /\ UNCHANGED <<engineVars, caller, samplerVars, ret, lotteryType, lotteryConfig,
                   prevCall, otherVars>>

\* const featureImportance = this.generateFeatureImportance(lotteryType), with
\* the draws rnd, and the QuantumPredictionResult generatePrediction returns.
\* circuitDepth and featureImportance are fields of its quantumMetrics; its
\* other metrics and its executionStats are further draws and clock readings
\* that nothing reads back.
ReturnPrediction(rnd) ==
    /\ pc = "finish"
    /\ ret' = [primaryPrediction |-> primaryPrediction,
               alternativeSets |-> alternativeSets,
               lotteryType |-> lotteryType,
               circuitDepth |-> config.kernelParams.quantumCircuitLayers
                                * config.kernelParams.entanglementDepth,
               featureImportance |-> generateFeatureImportance(lotteryType, rnd)]
    /\ pc' = "predicted"
    /\ UNCHANGED <<engineVars, caller, samplerVars, predictionVars, prevCall,
                   otherVars>>

\* The caller of generatePrediction has its result.
ResumePrediction ==
    /\ pc = "predicted"
    /\ pc' = "idle"
    /\ NoFrame
    /\ UNCHANGED <<engineVars, prevCall, otherVars>>

\* ------------------------------------------------------- engine mutators
\* setParameters(params): this.config = { ...this.config, ...params }
setParameters(params) ==
    /\ pc = "idle"
    /\ config' = Spread(config, params)
    /\ UNCHANGED <<lotteryConfigurations, historicalData, featureMatrix, pc, caller,
                   samplerVars, ret, predictionVars, prevCall, otherVars>>

\* loadHistoricalData(lt, data)
loadHistoricalData(lt, data) ==
    /\ pc = "idle"
    /\ historicalData' = Spread(historicalData, [k \in {lt} |-> data])
    /\ featureMatrix' = engineerFeatures(data)
    /\ UNCHANGED <<config, lotteryConfigurations, pc, caller, samplerVars, ret,
                   predictionVars, prevCall, otherVars>>

\* ----------------------------------------------------------------- inputs
Counts == (0 - 1) .. MaxCount

Mins == 1 .. MaxMin

Maxs == 0 .. MaxVal

Nums == (0 - MaxVal) .. (3 * MaxVal)

\* Lottery types asked of generatePrediction: a supported one, which has bonus
\* numbers, and one outside supportedLotteries, which gets the default.
LotteryInputs == {"euro_millions", "unknown_lotto"}

\* Parameter objects as useQuantumPrediction passes them to setParameters.
ParamInputs ==
    {[entanglementDepth |-> d, shotCount |-> 1000, featureMap |-> "ZZFeatureMap",
      optimizationLevel |-> 1] : d \in {3, 5}}

DataInputs == {<<[numbers |-> <<1, 3>>, drawNumber |-> 1]>>}

\* The two ends of what Math.random() returns, in thousandths.
ExtremeDraws == {0, 999}

\* The middle of what Math.random() returns: the draw of a confidence where
\* the prediction sets are told apart by their numbers.
MiddleDraws == {500}

SamplerNext ==
    \/ \E c \in Counts, mn \in Mins, mx \in Maxs : CallSampler(c, mn, mx)
    \/ \E num \in Nums : LoopIteration(num)
    \/ ReturnResult
    \/ Resume

PredictionNext ==
    \/ \E lt \in LotteryInputs : GeneratePrediction(lt)
    \/ GeneratePredictionSet
    \/ ReturnNumbers
    \/ CallBonus
    \/ ReturnBonus
    \/ SkipBonus
    \/ \E r \in MiddleDraws : StorePredictionSet(r)
    \/ \E rnd \in [DOMAIN baseImportance -> ExtremeDraws] : ReturnPrediction(rnd)
    \/ ResumePrediction

EngineNext ==
    \/ \E params \in ParamInputs : setParameters(params)
    \/ \E data \in DataInputs : loadHistoricalData("emirates_mega7", data)

Next == SamplerNext \/ PredictionNext \/ EngineNext

\* The engine: direct sampler calls, generatePrediction, and the mutators.
Spec == Init /\ [][Next]_vars

\* The sampler alone, called with every request up to the bounds.
SamplerSpec == Init /\ [][SamplerNext]_vars

\* Math.random() is fair: a value the loop can draw is drawn if the loop keeps
\* running, and a call whose loop has ended returns.
FairSpec ==
    /\ Init
    /\ [][SamplerNext]_vars
    /\ \A num \in Nums : WF_vars(LoopIteration(num))
    /\ WF_vars(ReturnResult)

PairNext ==
    \/ \E c \in Counts, mn \in Mins, mx \in Maxs : CallSampler(c, mn, mx)
    \/ \E num \in Nums : LoopIteration(num)
    \/ ReturnResult
    \/ ResumeRecording

\* The sampler called again and again, each call compared with the one before.
PairSpec == Init /\ [][PairNext]_vars
\* ------------------------------------- generateFeatureImportance, alone
\* A call of generateFeatureImportance on its own.
CallFeatureImportance(lt, rnd) ==
    /\ pc = "idle"
    /\ lotteryType' = lt
    /\ ret' = generateFeatureImportance(lt, rnd)
    /\ pc' = "importance"
    /\ UNCHANGED <<engineVars, caller, samplerVars, lotteryConfig, numbers, bonus,
                   primaryPrediction, alternativeSets, prevCall, otherVars>>

\* The caller has the record; the call's locals are gone.
ResumeImportance ==
    /\ pc = "importance"
    /\ pc' = "idle"
    /\ NoFrame
    /\ UNCHANGED <<engineVars, prevCall, otherVars>>

\* Draws spread over [0, 1), both ends included.
ImportanceDraws == {0, 250, 500, 750, 999}

ImportanceNext ==
    \/ \E lt \in LotteryInputs, rnd \in [DOMAIN baseImportance -> ImportanceDraws] :
           CallFeatureImportance(lt, rnd)
    \/ ResumeImportance

\* generateFeatureImportance alone, called with every combination of draws.
ImportanceSpec == Init /\ [][ImportanceNext]_vars

\* --------------------------------------------------- useQuantumPrediction
\* fetchPredictions has no await: its call of generatePrediction runs from
\* start to end within the one step, so the hook sees only what it returns.
\* The sequences of n distinct elements of S.
RECURSIVE Arrangements(_, _)
Arrangements(S, n) ==
    IF n <= 0 THEN {<<>>}
    ELSE UNION {{<<x>> \o t : t \in Arrangements(S \ {x}, n - 1)} : x \in S}

\* The arrays generateQuantumRandomNumbers(c, mn, mx) can return: the loop
\* ends with actualCount accepted numbers, each in mn..mx and not used before.
SamplerOutcomes(c, mn, mx) == Arrangements(mn .. mx, ActualCount(c, mn, mx))

\* The sets generatePredictionSet can return for the configuration lcfg when
\* its confidence is drawn from draws.
PredictionSetOutcomes(lcfg, draws) ==
    {PredictionSet(ns, bs, r) :
        ns \in SamplerOutcomes(lcfg.numberCount, 1, lcfg.numberRange),
        bs \in (IF WantsBonus(lcfg)
                THEN SamplerOutcomes(Field(lcfg, "specialNumberCount", 0), 1,
                                     Field(lcfg, "specialNumberRange", 0))
                ELSE {<<>>}),
        r \in draws}

\* The results generatePrediction(lt, targetDate) can return from an engine
\* whose config is cfg, with lcfg for the lottery's configuration.  The primary
\* set draws its confidence from either end, the alternative sets and the
\* feature importance draw from the middle.
PredictionOutcomes(cfg, lt, lcfg) ==
    {[primaryPrediction |-> p,
      alternativeSets |-> a,
      lotteryType |-> lt,
      circuitDepth |-> cfg.kernelParams.quantumCircuitLayers
                       * cfg.kernelParams.entanglementDepth,
      featureImportance |-> generateFeatureImportance(lt, rnd)] :
        p \in PredictionSetOutcomes(lcfg, ExtremeDraws),
        a \in [1 .. cfg.ensembleSize -> PredictionSetOutcomes(lcfg, MiddleDraws)],
        rnd \in [DOMAIN baseImportance -> MiddleDraws]}

\* The hook stores whole results: a configured request is cut to 1 of 1 main
\* number and 1 of 1 bonus number, so that results differ by the confidence
\* of their primary set.
ShrinkToOne(cfg) ==
    [k \in DOMAIN cfg |->
        CASE k = "numberCount" -> Min2(cfg[k], 1)
          [] k = "numberRange" -> Min2(cfg[k], 1)
          [] k = "specialNumberCount" -> Min2(cfg[k], 1)
          [] k = "specialNumberRange" -> Min2(cfg[k], 1)
          [] OTHER -> cfg[k]]

\* A lotteryType that is undefined at run time: lotteryType.toUpperCase()
\* throws a TypeError in generatePrediction.
Undefined == "undefined"

\* err.message of that TypeError
TypeErrorMessage == "Cannot read properties of undefined (reading 'toUpperCase')"

\* Mutant: the error's own message is reported, without the prefix.
FailedToGenerateBare(message) == message

\* `Failed to generate prediction: ${message}`
FailedToGenerateMessage(message) == "Failed to generate prediction: " \o message

\* The message fetchPredictions reports for that TypeError
FailedToGenerate == FailedToGenerateMessage(TypeErrorMessage)

\* Mutant: setLoading(false) ends the try block instead of a finally block.
fetchUpdatesWithoutFinally(lt, res) ==
    <<[set |-> "loading", to |-> TRUE], [set |-> "error", to |-> None]>>
    \o (IF lt = Undefined
        THEN <<[set |-> "error", to |-> FailedToGenerate]>>
        ELSE <<[set |-> "predictions", merge |-> [k \in {lt} |-> res]],
               [set |-> "loading", to |-> FALSE]>>)

\* The setState calls of one fetchPredictions(lt), in program order, when
\* generatePrediction returns res or, for an undefined lt, throws.  setLoading
\* and setError pass a value; setPredictions passes prev => ({...prev, [lt]: res}).
fetchUpdates(lt, res) ==
    <<[set |-> "loading", to |-> TRUE], [set |-> "error", to |-> None]>>
    \o (IF lt = Undefined
        THEN <<[set |-> "error", to |-> FailedToGenerate]>>
        ELSE <<[set |-> "predictions", merge |-> [k \in {lt} |-> res]]>>)
    \o <<[set |-> "loading", to |-> FALSE]>>

\* Mutant: setPredictions stores the new entry alone, without ...prev.
applyUpdateWithoutPrev(s, u) ==
    IF u.set = "predictions"
    THEN [s EXCEPT !.predictions = u.merge]
    ELSE [s EXCEPT ![u.set] = u.to]

\* The hook's state after React applies the setState call u to the state s.
applyUpdate(s, u) ==
    IF u.set = "predictions"
    THEN [s EXCEPT !.predictions = Spread(s.predictions, u.merge)]
    ELSE [s EXCEPT ![u.set] = u.to]

\* The hook's state after the calls of updates, applied first to last.
RECURSIVE applyUpdates(_, _)
applyUpdates(s, updates) ==
    IF updates = <<>> THEN s
    ELSE applyUpdates(applyUpdate(s, Head(updates)), Tail(updates))

\* The values that updates passes to the setter of the state named name.
RECURSIVE ValuesSet(_, _)
ValuesSet(updates, name) ==
    IF updates = <<>> THEN <<>>
    ELSE (IF Head(updates).set = name THEN <<Head(updates).to>> ELSE <<>>)
         \o ValuesSet(Tail(updates), name)

\* fetchPredictions(lt).  Each render constructs an engine and the callback
\* keeps the one of the render that created it; as parameters always holds the
\* same four keys, setParameters leaves every such engine with the same config.
\* The function has no await, so its setState calls reach React together.
fetchPredictions(lt) ==
    /\ pc = "idle"
    /\ config' = Spread(config, parameters)
    /\ \E res \in (IF lt = Undefined THEN {NoSet}
                   ELSE PredictionOutcomes(config', lt,
                                           ShrinkToOne(getLotteryConfiguration(lt)))) :
          LET updates == fetchUpdates(lt, res)
              after == applyUpdates([predictions |-> predictions, loading |-> loading,
                                     error |-> error], updates)
          IN  /\ predictions' = after.predictions
              /\ loading' = after.loading
              /\ error' = after.error
              /\ lastFetch' = [lotteryType |-> lt, threw |-> lt = Undefined,
                               loading |-> ValuesSet(updates, "loading"),
                               error |-> ValuesSet(updates, "error")]
    /\ UNCHANGED <<lotteryConfigurations, historicalData, featureMatrix, callVars,
                   parameters, appVars, serviceVars>>

\* submitCustomParameters(newParameters)
submitCustomParameters(newParameters) ==
    /\ parameters' = Spread(parameters, newParameters)
    /\ UNCHANGED <<engineVars, callVars, predictions, loading, error, lastFetch,
                   appVars, serviceVars>>

\* getExplainabilityData(lt) answers null for a type without a prediction.
NoData == [null |-> TRUE]

\* getExplainabilityData(lt): the metrics of the stored prediction.  The model
\* keeps circuitDepth and featureImportance of quantumMetrics.
getExplainabilityData(lt) ==
    IF lt \notin DOMAIN predictions THEN NoData
    ELSE [featureImportance |-> predictions[lt].featureImportance,
          circuitDepth |-> predictions[lt].circuitDepth]

\* Lottery types asked of the hook: one without bonus numbers, one with, and
\* a value that is no string.
HookLotteryInputs == {"emirates_mega7", "us_powerball", Undefined}

\* Parameter objects of the Settings panel, whole or partial.
SubmitInputs ==
    {[entanglementDepth |-> 5],
     [shotCount |-> 2000, featureMap |-> "PauliFeatureMap", optimizationLevel |-> 3],
     [entanglementDepth |-> 3, shotCount |-> 1000, featureMap |-> "ZZFeatureMap",
      optimizationLevel |-> 1]}

HookNext ==
    \/ \E lt \in HookLotteryInputs : fetchPredictions(lt)
    \/ \E newParameters \in SubmitInputs : submitCustomParameters(newParameters)

\* The hook: any sequence of fetchPredictions and submitCustomParameters.
HookSpec == Init /\ [][HookNext]_vars

\* ------------------------------------------- App, Navigation, ScheduleModule
\* type ActiveModule
ActiveModules ==
    {"welcome", "intake", "predictions", "schedule", "insights", "trust", "portal",
     "analysis", "september6", "quantum"}

\* const navItems of Navigation
navItems ==
    <<[id |-> "quantum", label |-> "Quantum AI"],
      [id |-> "september6", label |-> "Sep 6 Report"],
      [id |-> "welcome", label |-> "Welcome"],
      [id |-> "intake", label |-> "Intake"],
      [id |-> "predictions", label |-> "Predictions"],
      [id |-> "schedule", label |-> "Schedule"],
      [id |-> "insights", label |-> "Insights"],
      [id |-> "trust", label |-> "Trust"],
      [id |-> "portal", label |-> "Portal"],
      [id |-> "analysis", label |-> "Analysis"]>>

\* Mutant: the line {activeModule === 'analysis' && <AnalysisModule />} is
\* missing and the line for 'portal' stands twice.
moduleSwitchWithoutAnalysis ==
    <<[when |-> "welcome", component |-> "WelcomeModule"],
      [when |-> "intake", component |-> "IntakeModule"],
      [when |-> "predictions", component |-> "PredictionsModule"],
      [when |-> "schedule", component |-> "ScheduleModule"],
      [when |-> "insights", component |-> "InsightsModule"],
      [when |-> "trust", component |-> "TrustModule"],
      [when |-> "portal", component |-> "UserPortal"],
      [when |-> "portal", component |-> "AnalysisModule"],
      [when |-> "september6", component |-> "September6Dashboard"],
      [when |-> "quantum", component |-> "QuantumDashboard"]>>

\* The children of <main> in App: {activeModule === when && <component />}
moduleSwitch ==
    <<[when |-> "welcome", component |-> "WelcomeModule"],
      [when |-> "intake", component |-> "IntakeModule"],
      [when |-> "predictions", component |-> "PredictionsModule"],
      [when |-> "schedule", component |-> "ScheduleModule"],
      [when |-> "insights", component |-> "InsightsModule"],
      [when |-> "trust", component |-> "TrustModule"],
      [when |-> "portal", component |-> "UserPortal"],
      [when |-> "analysis", component |-> "AnalysisModule"],
      [when |-> "september6", component |-> "September6Dashboard"],
      [when |-> "quantum", component |-> "QuantumDashboard"]>>

\* The components App renders in <main> when active is the active module.
RenderedModules(active) ==
    {moduleSwitch[i].component :
        i \in {j \in 1 .. Len(moduleSwitch) : moduleSwitch[j].when = active}}

\* What App renders: <Navigation />, always, and the children of <main>.
AppRenders(active) == {"Navigation"} \cup RenderedModules(active)

\* Times are milliseconds after 2025-09-01T00:00:00 local time.
\* nextDraw of each entry of const draws, in order.
drawTimes ==
    <<20 * 3600000, 19 * 3600000 + 30 * 60000, 18 * 3600000, 21 * 3600000,
      21 * 3600000, 21 * 3600000, 12 * 3600000, 23 * 3600000>>

\* Mutant: the hours are those of the whole difference,
\* Math.floor(diff / (1000 * 60 * 60)).
HoursOfWholeDiff(diff) == diff \div (1000 * 60 * 60)

\* const hours = Math.floor((diff % (1000 * 60 * 60 * 24)) / (1000 * 60 * 60))
Hours(diff) == (diff % (1000 * 60 * 60 * 24)) \div (1000 * 60 * 60)

\* getTimeRemaining(targetDate) at the time now.  timeString is the list of
\* its parts, `${days}d `, `${hours}h `, `${minutes}m ` and `${seconds}s`,
\* each a pair of number and unit.
getTimeRemaining(target, now) ==
    LET diff == target - now
        days == diff \div (1000 * 60 * 60 * 24)
        hours == Hours(diff)
        minutes == (diff % (1000 * 60 * 60)) \div (1000 * 60)
        seconds == (diff % (1000 * 60)) \div 1000
    IN  IF diff <= 0
        THEN [expired |-> TRUE, timeString |-> "Draw Completed"]
        ELSE [expired |-> FALSE,
              timeString |->
                  (IF days > 0 THEN <<<<days, "d">>>> ELSE <<>>)
                  \o (IF hours > 0 THEN <<<<hours, "h">>>> ELSE <<>>)
                  \o (IF minutes > 0 THEN <<<<minutes, "m">>>> ELSE <<>>)
                  \o <<<<seconds, "s">>>>]

\* onClick={() => setActiveModule(id)} of the i-th navigation item.  Leaving
\* 'schedule' unmounts ScheduleModule and clears its timer; entering it mounts
\* ScheduleModule, whose currentTime starts as new Date(), here t.
ActivateItem(i, t) ==
    /\ activeModule' = navItems[i].id
    /\ lastClicked' = navItems[i].id
    /\ currentTime' = IF navItems[i].id # "schedule" THEN NoTime
                      ELSE IF activeModule = "schedule" THEN currentTime
                      ELSE t
    /\ UNCHANGED <<engineVars, callVars, hookVars, serviceVars>>

\* The setInterval callback of ScheduleModule: setCurrentTime(new Date()),
\* where new Date() reads the wall clock as t.
Tick(t) ==
    /\ activeModule = "schedule"
    /\ currentTime' = t
    /\ UNCHANGED <<engineVars, callVars, hookVars, activeModule, lastClicked,
                   serviceVars>>

\* Offsets of the wall clock from a draw, in milliseconds: around the draw and
\* around a second, a minute, an hour and a day before it.
ClockOffsets ==
    {0, 1, 0 - 1, 999, 0 - 999, 1000, 0 - 1000, 0 - 1001, 0 - 59999, 0 - 60000,
     0 - 61000, 0 - 3599999, 0 - 3600000, 0 - 3661000, 0 - 86399999, 0 - 86400000,
     0 - 90061001, 0 - 172800000, 60000, 3600000, 0 - 7200000, 0 - 43200000}

\* The readings of the wall clock.
TimeInputs == {drawTimes[d] + o : d \in 1 .. Len(drawTimes), o \in ClockOffsets}

AppNext ==
    \/ \E i \in 1 .. Len(navItems), t \in TimeInputs : ActivateItem(i, t)
    \/ \E t \in TimeInputs : Tick(t)

\* App with its navigation and the schedule's one-second timer.
AppSpec == Init /\ [][AppNext]_vars

\* ----------------------------------------------------- lotteryDataService
\* if (config.refreshInterval && config.refreshInterval > 0)
WantsRefresh(cfg) == Field(cfg, "refreshInterval", 0) > 0

\* The timers that clearInterval(id) leaves active.
clearInterval(timers, id) == {t \in timers : t.id # id}

\* The values of a Map.
Values(map) == {map[k] : k \in DOMAIN map}

\* Array.from({ length }, () => Math.floor(Math.random() * range) + 1) for one
\* course of the random source: the numbers first, first + step, ... wrapped
\* into 1..range.  With step 0 the one number is drawn length times.
DrawNumbers(length, range, first, step) ==
    [j \in 1 .. length |-> ((first - 1 + (j - 1) * step) % range) + 1]

\* The arrays mockFetchData(lt) can resolve to: twenty draws of seven numbers
\* out of 1..49 (emirates_mega7), six out of 1..42 (emirates_easy6) or six out
\* of 1..49 (any other type).  Of the courses the random source can take, the
\* two extremes are kept: one number drawn every time (spread 0), and
\* consecutive numbers with each draw going on where the one before ended
\* (spread 1), which spreads the numbers as evenly as twenty draws can.
mockFetchData(lt) ==
    LET length == IF lt = "emirates_mega7" THEN 7 ELSE 6
        range == IF lt = "emirates_easy6" THEN 42 ELSE 49
    IN  {[i \in 1 .. 20 |->
            [numbers |-> DrawNumbers(length, range,
                                     (((i - 1) * length * spread) % range) + 1, spread),
             source |-> IF lt \in {"emirates_mega7", "emirates_easy6"}
                        THEN "Emirates Draw API" ELSE "Generic Lottery API"]] :
            spread \in {0, 1}}

\* getMaxPossibleNumber(lt)
getMaxPossibleNumber(lt) ==
    CASE lt = "emirates_mega7" -> 49
      [] lt = "emirates_easy6" -> 42
      [] OTHER -> 49

\* The largest r in lo..hi with r * r <= n, for lo * lo <= n.
RECURSIVE IsqrtBetween(_, _, _)
IsqrtBetween(lo, hi, n) ==
    IF lo >= hi THEN lo
    ELSE LET mid == (lo + hi + 1) \div 2
         IN  IF mid * mid <= n THEN IsqrtBetween(mid, hi, n)
             ELSE IsqrtBetween(lo, mid - 1, n)

\* Math.sqrt(n), rounded down; 46340 is the largest root of a 32-bit integer.
Isqrt(n) == IsqrtBetween(0, 46340, n)

\* The frequencyMap of results: how often each number occurs in the draws.
FrequencyMap(results) ==
    LET all == UNION {SeqToSet(results[d].numbers) : d \in 1 .. Len(results)}
    IN  [n \in all |->
            SumSeq([d \in 1 .. Len(results) |->
                Cardinality({j \in 1 .. Len(results[d].numbers) :
                                 results[d].numbers[j] = n})])]

\* sumSquaredDiff times maxPossibleNumber squared, which is a whole number:
\* diff is observed - totalDraws / maxPossibleNumber.
SumSquaredDiffScaled(frequencyMap, totalDraws, maxPossibleNumber) ==
    SumSeq([i \in 1 .. maxPossibleNumber |->
        LET diff == maxPossibleNumber * Field(frequencyMap, i, 0) - totalDraws
        IN  diff * diff])

\* 1 - (Math.sqrt(sumSquaredDiff / maxPossibleNumber) / expectedFrequency), in
\* hundredths: the quotient under the root is
\* SumSquaredDiffScaled / (maxPossibleNumber * totalDraws^2), kept to one
\* decimal place before the root is taken.
EntropyScore(frequencyMap, totalDraws, maxPossibleNumber) ==
    100 - Isqrt(((SumSquaredDiffScaled(frequencyMap, totalDraws, maxPossibleNumber) * 10)
                    \div (maxPossibleNumber * totalDraws * totalDraws)) * 1000)

\* generateStatistics(results, lt): totalDraws, frequencyMap and entropyScore;
\* its pair counts and special-number counts are further functions of results.
generateStatistics(results, lt) ==
    LET frequencyMap == FrequencyMap(results)
    IN  [totalDraws |-> Len(results),
         frequencyMap |-> frequencyMap,
         entropyScore |-> EntropyScore(frequencyMap, Len(results),
                                       getMaxPossibleNumber(lt))]

\* getLotteryStats finds no statistics: null.
NoStats == [unset |-> TRUE]

\* getLotteryResults(lt)
getLotteryResults(lt) == Field(dataCache, lt, <<>>)

\* getLotteryStats(lt)
getLotteryStats(lt) == Field(statsCache, lt, NoStats)

\* Lottery types asked of the data service: one with a case of its own in
\* mockFetchData and one that takes the default.
ServiceLotteryInputs == {"emirates_mega7", "euro_millions"}

\* generateStatistics is a function of its arguments alone: its value for
\* every array mockFetchData can resolve to, computed once.
Statistics ==
    [lt \in ServiceLotteryInputs |->
        [results \in mockFetchData(lt) |-> generateStatistics(results, lt)]]

\* The initializeDataSource calls awaiting their first fetch that will set a
\* timer.
TimersToCome ==
    Cardinality({i \in 1 .. Len(pending) :
                     pending[i].init /\ WantsRefresh(pending[i].config)})

\* initializeDataSource(cfg) up to the await in mockFetchData: the timer on
\* record for the type is cleared and the first fetch is started.
initializeDataSource(cfg) ==
    /\ Len(pending) < MaxPending
    /\ WantsRefresh(cfg) => nextTimerId + TimersToCome <= MaxTimers
    /\ activeTimers' = IF cfg.lotteryType \in DOMAIN refreshIntervals
                       THEN clearInterval(activeTimers, refreshIntervals[cfg.lotteryType])
                       ELSE activeTimers
    /\ pending' = Append(pending, [config |-> cfg, init |-> TRUE])
    /\ disposed' = FALSE
    /\ UNCHANGED <<engineVars, callVars, hookVars, appVars, dataCache, statsCache,
                   refreshIntervals, nextTimerId>>

\* The 500 ms timeout of the oldest mockFetchData fires (equal timeouts fire
\* in the order they were set) and it resolves to results; fetchLotteryData
\* stores them and their statistics; and an initializeDataSource that awaited
\* the fetch sets up its refresh timer.  The continuations are microtasks: no
\* other call runs between them.
ResumeFetch(results) ==
    /\ pending # <<>>
    /\ LET call == Head(pending)
           lt == call.config.lotteryType
       IN  /\ results \in mockFetchData(lt)
           /\ dataCache' = Spread(dataCache, [k \in {lt} |-> results])
           /\ statsCache' = Spread(statsCache, [k \in {lt} |-> Statistics[lt][results]])
           /\ IF call.init /\ WantsRefresh(call.config)
              THEN /\ activeTimers' = activeTimers \cup
                                          {[id |-> nextTimerId, config |-> call.config]}
                   /\ refreshIntervals' = Spread(refreshIntervals, [k \in {lt} |-> nextTimerId])
                   /\ nextTimerId' = nextTimerId + 1
              ELSE UNCHANGED <<activeTimers, refreshIntervals, nextTimerId>>
    /\ pending' = Tail(pending)
    /\ UNCHANGED <<engineVars, callVars, hookVars, appVars, disposed>>

\* The refresh timer t fires: () => this.fetchLotteryData(config)
IntervalFires(t) ==
    /\ t \in activeTimers
    /\ Len(pending) < MaxPending
    /\ pending' = Append(pending, [config |-> t.config, init |-> FALSE])
    /\ UNCHANGED <<engineVars, callVars, hookVars, appVars, dataCache, statsCache,
                   refreshIntervals, activeTimers, nextTimerId, disposed>>

\* Mutant: dispose leaves statsCache as it is.
disposeKeepingStats ==
    /\ activeTimers' = {t \in activeTimers : t.id \notin Values(refreshIntervals)}
    /\ refreshIntervals' = NoEntries
    /\ dataCache' = NoEntries
    /\ disposed' = TRUE
    /\ UNCHANGED <<engineVars, callVars, hookVars, appVars, pending, nextTimerId,
                   statsCache>>

\* dispose()
dispose ==
    /\ activeTimers' = {t \in activeTimers : t.id \notin Values(refreshIntervals)}
    /\ refreshIntervals' = NoEntries
    /\ dataCache' = NoEntries
    /\ statsCache' = NoEntries
    /\ disposed' = TRUE
    /\ UNCHANGED <<engineVars, callVars, hookVars, appVars, pending, nextTimerId>>

\* DataIngestionConfig objects, without and with a refreshInterval.
ConfigInputs ==
    {[lotteryType |-> lt] : lt \in ServiceLotteryInputs}
        \cup {[lotteryType |-> lt, refreshInterval |-> 60000] : lt \in ServiceLotteryInputs}

\* Every timer there can be.
TimerInputs == [id : 1 .. MaxTimers, config : ConfigInputs]

ServiceNext ==
    \/ \E cfg \in ConfigInputs : initializeDataSource(cfg)
    \/ \E lt \in ServiceLotteryInputs : \E results \in mockFetchData(lt) : ResumeFetch(results)
    \/ \E t \in TimerInputs : IntervalFires(t)
    \/ dispose

\* The data service: calls of initializeDataSource and dispose, interleaved
\* with the fetches and timers they start.
ServiceSpec == Init /\ [][ServiceNext]_vars

\* ----------------------------------------------------- request predicates
\* count > 0, min <= max and count <= max - min + 1
ValidRequest(c, mn, mx) == c > 0 /\ mn <= mx /\ c <= possibleNumbers(mn, mx)

\* count > max - min + 1, with min <= max and count > 0
ExcessRequest(c, mn, mx) == c > 0 /\ mn <= mx /\ c > possibleNumbers(mn, mx)

\* max < min or count <= 0
BoundsInvalid(c, mn, mx) == mx < mn \/ c <= 0

\* A direct sampler call has returned; ret is the array it returned.
Returned == pc = "returned"

\* A direct sampler call is running or has just returned.
InDirectCall == caller = "direct" /\ pc \in {"loop", "returned"}

IsDistinct(s) == Cardinality(SeqToSet(s)) = Len(s)

StrictlyAscending(s) == \A i \in 1..(Len(s) - 1) : s[i] < s[i + 1]

\* min, min + 1, ..., max
FullRange(mn, mx) == [i \in 1..possibleNumbers(mn, mx) |-> mn + i - 1]

\* ----------------------------------------------------------------- claims
\* C1: for every valid request, whatever the draws, the array a sampler call
\* returns has exactly count elements, all within min..max, none repeated.
C1_DistinctInRange ==
    (Returned /\ ValidRequest(count, min, max)) =>
        /\ Len(ret) = count
        /\ SeqToSet(ret) \subseteq min..max
        /\ IsDistinct(ret)

\* A valid call of 2 of 3 or more has returned after at least one rejected draw.
C1_Witness ==
    /\ Returned
    /\ ValidRequest(count, min, max)
    /\ count >= 2
    /\ count < possibleNumbers(min, max)
    /\ iters > count

\* C2 as stated: a call whose count exceeds the size of the range fails, so it
\* never returns a list.
C2_RangeErrorRaised == ~(Returned /\ ExcessRequest(count, min, max))

\* C2 as amended: a call whose count exceeds the size of the range raises no
\* error; count is clamped to the size of the range and the call returns
\* max - min + 1 distinct numbers, the whole range min..max.
C2_ClampsToRange ==
    (Returned /\ ExcessRequest(count, min, max)) =>
        /\ Len(ret) = possibleNumbers(min, max)
        /\ SeqToSet(ret) = min..max

\* A call asking for more numbers than a range of two holds has returned.
C2_Witness ==
    /\ Returned
    /\ ExcessRequest(count, min, max)
    /\ possibleNumbers(min, max) = 2
    /\ Len(ret) < count

\* C3 as stated: a call with max < min or count <= 0 fails, so it never
\* returns a list.
C3_BoundsErrorRaised == ~(Returned /\ BoundsInvalid(count, min, max))

\* C3 as amended: a call with max < min or count <= 0 raises no error and
\* returns the empty list.
C3_ReturnsEmpty ==
    (Returned /\ BoundsInvalid(count, min, max)) => ret = <<>>

\* A call for a positive count from an empty range (max < min) has returned.
C3_Witness == Returned /\ max < min /\ count > 0

\* C4: when count equals the size of the range, the returned array sorted is
\* exactly min, min + 1, ..., max.
C4_FullRange ==
    (Returned /\ ValidRequest(count, min, max) /\ count = possibleNumbers(min, max)) =>
        SortAscending(ret) = FullRange(min, max)

\* A call for all of a range of three has returned them in another order.
C4_Witness ==
    /\ Returned
    /\ count = possibleNumbers(min, max)
    /\ count >= 3
    /\ ret # FullRange(min, max)

\* C5 as stated: the array a sampler call returns for a valid request is in
\* strictly ascending order.
C5_ReturnedAscending ==
    (Returned /\ ValidRequest(count, min, max)) => StrictlyAscending(ret)

\* The prediction sets generatePrediction has built so far.
StoredSets ==
    (IF primaryPrediction = NoSet THEN {} ELSE {primaryPrediction})
        \cup SeqToSet(alternativeSets)

\* C5 as amended: the sampler returns the numbers in the order it accepted
\* them; the numbers and bonus lists of every PredictionSet are strictly
\* ascending, because generatePredictionSet sorts both.
C5_StoredSetsAscending ==
    \A set \in StoredSets :
        StrictlyAscending(set.numbers) /\ StrictlyAscending(set.bonus)

\* generatePrediction has returned six sets with two bonus numbers each.
C5_Witness ==
    /\ pc = "predicted"
    /\ Len(ret.alternativeSets) = 5
    /\ Len(ret.primaryPrediction.numbers) = 2
    /\ Len(ret.primaryPrediction.bonus) = 2

\* C6: with a fair random source, the loop of every valid call ends and the
\* call returns.
C6_Terminates ==
    (pc = "loop" /\ ValidRequest(count, min, max)) ~> Returned

\* A valid call has returned after at least one rejected draw.
C6_Witness == Returned /\ ValidRequest(count, min, max) /\ iters > count

\* count approaches or equals the size of the range.
NearFull(c, mn, mx) ==
    ValidRequest(c, mn, mx) /\ c >= possibleNumbers(mn, mx) - 1

\* C7 as stated: a call whose count approaches or equals the size of the
\* range ends within as many steps as the range has numbers, whatever the draws.
C7_BoundedByRange ==
    (InDirectCall /\ NearFull(count, min, max)) => iters <= possibleNumbers(min, max)

\* C7 as amended: there is no deterministic fallback; a call whose count
\* approaches or equals the size of the range runs the same rejection loop
\* and returns when the random source is fair.
C7_NearFullTerminates ==
    (pc = "loop" /\ NearFull(count, min, max)) ~> Returned

\* A call for a whole range has returned after more iterations than the range
\* has numbers.
C7_Witness ==
    /\ Returned
    /\ count = possibleNumbers(min, max)
    /\ count >= 2
    /\ iters > possibleNumbers(min, max)

\* C8 as stated: a call with an invalid request runs no iteration of the
\* sampling loop (takes no draw).
C8_NoDrawWhenInvalid ==
    (InDirectCall /\ ~ValidRequest(count, min, max)) => iters = 0

\* C8 as amended: no error is reported; a call with max < min or count <= 0
\* runs no iteration and takes no draw, while a call whose count exceeds the
\* size of the range runs the loop, at least once for each number of the range.
C8_DrawsOnlyWhenClamped ==
    /\ (InDirectCall /\ BoundsInvalid(count, min, max)) => (iters = 0 /\ result = <<>>)
    /\ (Returned /\ ExcessRequest(count, min, max)) => iters >= possibleNumbers(min, max)

\* A call with count <= 0 on a range that has numbers has returned.
C8_Witness == Returned /\ count <= 0 /\ min <= max /\ iters = 0

\* The call that has just returned repeats the request of the call on record.
SameRequestAgain ==
    /\ Returned
    /\ prevCall # NoCall
    /\ prevCall.count = count /\ prevCall.min = min /\ prevCall.max = max

\* C9 as stated, its first half: two calls with the same invalid request have
\* the same outcome whatever the draws.  (Its second half, that the outcome is
\* a failure, is C2 and C3 as stated.)
C9_SameOutcome ==
    (SameRequestAgain /\ ~ValidRequest(count, min, max)) => ret = prevCall.ret

\* C9 as amended: no call fails; two calls with the same invalid request
\* return the same set of numbers whatever the draws, the empty list when
\* max < min or count <= 0 and the whole range, in an order that depends on the
\* draws, when count exceeds the size of the range.
C9_SameNumbers ==
    (SameRequestAgain /\ ~ValidRequest(count, min, max)) =>
        /\ SeqToSet(ret) = SeqToSet(prevCall.ret)
        /\ BoundsInvalid(count, min, max) => ret = prevCall.ret

\* Two calls with the same excessive request returned different arrays.
C9_Witness ==
    /\ SameRequestAgain
    /\ ExcessRequest(count, min, max)
    /\ ret # prevCall.ret

\* No local of a call holds a value.
BlankFrame ==
    /\ caller = None
    /\ count = 0 /\ min = 0 /\ max = 0 /\ actualCount = 0
    /\ result = <<>> /\ used = {} /\ iters = 0
    /\ lotteryType = None
    /\ numbers = <<>> /\ bonus = <<>>
    /\ primaryPrediction = NoSet /\ alternativeSets = <<>>

\* C10: every step of a sampler call or of generatePrediction leaves config,
\* lotteryConfigurations, historicalData and featureMatrix unchanged; every
\* sampler call starts from an empty accumulator, and nothing of a call is
\* left when the engine is idle again.
C10_NoSideEffects ==
    [][/\ (pc # "idle" \/ pc' # "idle") => UNCHANGED engineVars
       /\ (pc # "loop" /\ pc' = "loop") => (result' = <<>> /\ used' = {} /\ iters' = 0)
       /\ pc' = "idle" => BlankFrame']_vars

\* A prediction has been generated by an engine with parameters set and
\* historical data loaded.
C10_Witness ==
    /\ pc = "predicted"
    /\ config # defaultQuantumConfig
    /\ DOMAIN historicalData # {}
    /\ featureMatrix # <<>>

\* The five labels of a feature importance record.
ImportanceLabels == {"frequency", "recency", "entropy", "cooccurrence", "seasonality"}

\* C11: whatever the draws, generateFeatureImportance returns a record with
\* exactly the five labels frequency, recency, entropy, cooccurrence and
\* seasonality, and every value lies in [0, 1].
C11_FiveLabelsInUnitInterval ==
    pc = "importance" =>
        /\ DOMAIN ret = ImportanceLabels
        /\ \A k \in ImportanceLabels : ret[k] >= 0 /\ ret[k] <= 10000

\* A record whose seasonality was clamped up to 0.05 while its frequency took
\* the largest jitter.
C11_Witness ==
    /\ pc = "importance"
    /\ ret.seasonality = 500
    /\ ret.frequency = 4498

\* The feature importance records the jitter alone can produce.
JitterOutcomes ==
    {[k \in ImportanceLabels |-> Min2(9500, Max2(500, baseImportance[k] + Jitter(rnd[k])))] :
        rnd \in [ImportanceLabels -> ExtremeDraws]}

\* The feature importance records generatePrediction can return from here.
PossibleImportance ==
    {generateFeatureImportance(lotteryType, rnd) :
        rnd \in [DOMAIN baseImportance -> ExtremeDraws]}

\* C12: whatever numbers were drawn for the six prediction sets, the feature
\* importance records generatePrediction can go on to return are the same set,
\* the one the jitter alone determines, and the record it returns is one of them.
C12_ImportanceIndependentOfNumbers ==
    /\ pc = "finish" => PossibleImportance = JitterOutcomes
    /\ pc = "predicted" => ret.featureImportance \in JitterOutcomes

\* A prediction whose primary numbers are 2 and 3 carries the smallest
\* frequency importance.
C12_Witness ==
    /\ pc = "predicted"
    /\ ret.primaryPrediction.numbers = <<2, 3>>
    /\ ret.alternativeSets[1].numbers = <<1, 2>>
    /\ ret.featureImportance.frequency = 2500

\* The prediction sets of a stored result.
SetsOf(prediction) ==
    {prediction.primaryPrediction} \cup SeqToSet(prediction.alternativeSets)

ParameterSettings ==
    [entanglementDepth : {1, 3, 5}, shotCount : {1000, 2000},
     featureMap : {"ZZFeatureMap", "PauliFeatureMap"}, optimizationLevel : {1, 3}]

\* The results fetchPredictions(lt) can store once submitCustomParameters has
\* submitted the setting params.
FetchOutcomes(params, lt) ==
    PredictionOutcomes(Spread(config, Spread(parameters, params)), lt,
                       ShrinkToOne(getLotteryConfiguration(lt)))

\* C14 as stated: there are two parameter settings, submitted through
\* submitCustomParameters, for which the prediction results a following
\* fetchPredictions can produce differ.
C14_ParametersAffectPredictions ==
    \E p1 \in ParameterSettings, p2 \in ParameterSettings :
        \E lt \in HookLotteryInputs \ {Undefined} :
            FetchOutcomes(p1, lt) # FetchOutcomes(p2, lt)

\* C15 as stated: before any navigation item is activated, App shows the
\* navigation bar and the Welcome module, the active module being 'welcome'.
C15_StartsAtWelcome ==
    lastClicked = None =>
        /\ activeModule = "welcome"
        /\ AppRenders(activeModule) = {"Navigation", "WelcomeModule"}

\* The navigation items whose id is the module m.
ItemsOf(m) == {i \in 1 .. Len(navItems) : navItems[i].id = m}

\* C16: Navigation has exactly one item for each module, those labelled
\* Welcome, Intake, Predictions, Schedule, Insights, Trust, Portal and Analysis
\* among them; the module of the item activated last is the active module; and
\* in every reachable state App renders exactly one module, the one whose
\* condition names the active module.
C16_OneItemOneModule ==
    /\ \A m \in ActiveModules : Cardinality(ItemsOf(m)) = 1
    /\ {"Welcome", "Intake", "Predictions", "Schedule", "Insights", "Trust", "Portal",
        "Analysis"} \subseteq {navItems[i].label : i \in 1 .. Len(navItems)}
    /\ activeModule \in ActiveModules
    /\ lastClicked # None => activeModule = lastClicked
    /\ Cardinality(RenderedModules(activeModule)) = 1
    /\ \A i \in 1 .. Len(moduleSwitch) :
           moduleSwitch[i].component \in RenderedModules(activeModule) =>
               moduleSwitch[i].when = activeModule

\* The Analysis item was activated and AnalysisModule is what App renders.
C16_Witness ==
    /\ lastClicked = "analysis"
    /\ RenderedModules(activeModule) = {"AnalysisModule"}

\* The seconds a part of a time string stands for.
PartSeconds(part) ==
    part[1] * (CASE part[2] = "d" -> 86400 [] part[2] = "h" -> 3600
                 [] part[2] = "m" -> 60 [] OTHER -> 1)

\* The part of the time string with the unit u, or 0 when it is left out.
PartOf(timeString, u) ==
    LET at == {i \in 1 .. Len(timeString) : timeString[i][2] = u}
    IN  IF at = {} THEN 0 ELSE timeString[CHOOSE i \in at : TRUE][1]

\* The countdown of the draw at target is exact at the time now.
ExactCountdown(target, now) ==
    LET r == getTimeRemaining(target, now)
    IN  /\ r.expired <=> target <= now
        /\ r.expired => r.timeString = "Draw Completed"
        /\ ~r.expired =>
               /\ PartOf(r.timeString, "d") >= 0
               /\ PartOf(r.timeString, "h") \in 0 .. 23
               /\ PartOf(r.timeString, "m") \in 0 .. 59
               /\ PartOf(r.timeString, "s") \in 0 .. 59
               /\ SumSeq([i \in 1 .. Len(r.timeString) |-> PartSeconds(r.timeString[i])])
                      = (target - now) \div 1000

\* C17: while ScheduleModule is mounted, getTimeRemaining reports a draw
\* expired exactly when its time is not after the current time, and otherwise
\* days, hours in 0..23, minutes in 0..59 and seconds in 0..59 that add up to
\* the whole seconds remaining; and when the timer moves the current time
\* forward, a draw that was expired is still expired.
C17_CountdownExact ==
    /\ [](currentTime # NoTime =>
            \A d \in 1 .. Len(drawTimes) : ExactCountdown(drawTimes[d], currentTime))
    /\ [][(currentTime # NoTime /\ currentTime' # NoTime /\ currentTime' >= currentTime) =>
            \A d \in 1 .. Len(drawTimes) :
                getTimeRemaining(drawTimes[d], currentTime).expired =>
                    getTimeRemaining(drawTimes[d], currentTime').expired]_vars

\* The schedule shows 1d 1h 1m 1s for the 20:00 draw while the 12:00 draw,
\* nine hours behind, shows 16h 1m 1s.
C17_Witness ==
    /\ activeModule = "schedule"
    /\ getTimeRemaining(drawTimes[1], currentTime).timeString
           = <<<<1, "d">>, <<1, "h">>, <<1, "m">>, <<1, "s">>>>
    /\ ~getTimeRemaining(drawTimes[7], currentTime).expired

\* The active refresh timers of the lottery type lt.
TimersOf(lt) == {t \in activeTimers : t.config.lotteryType = lt}

\* C18 as stated: after any interleaving of initializeDataSource calls, at
\* most one refresh timer is active for each lottery type, and every active
\* timer is the one recorded in refreshIntervals for its type.
C18_OneRecordedTimerPerType ==
    \A lt \in ServiceLotteryInputs :
        /\ Cardinality(TimersOf(lt)) <= 1
        /\ \A t \in TimersOf(lt) :
               lt \in DOMAIN refreshIntervals /\ refreshIntervals[lt] = t.id

\* C19 as stated: from the return of dispose() until initializeDataSource is
\* called again, no refresh timer is active, dataCache and statsCache are
\* empty, getLotteryResults returns [] and getLotteryStats returns null.
C19_DisposedStaysEmpty ==
    disposed =>
        /\ activeTimers = {}
        /\ dataCache = NoEntries
        /\ statsCache = NoEntries
        /\ \A lt \in ServiceLotteryInputs :
               getLotteryResults(lt) = <<>> /\ getLotteryStats(lt) = NoStats

\* A configured request fits its range: the count of main numbers is at most
\* numberRange and the count of special numbers at most specialNumberRange.
FitsRange(cfg) ==
    /\ cfg.numberCount <= cfg.numberRange
    /\ WantsBonus(cfg) =>
           Field(cfg, "specialNumberCount", 0) <= Field(cfg, "specialNumberRange", 0)

\* The set has the numbers the configuration cfg asks for.
MatchesConfiguration(set, cfg) ==
    /\ Len(set.numbers) = cfg.numberCount
    /\ IsDistinct(set.numbers)
    /\ SeqToSet(set.numbers) \subseteq 1 .. cfg.numberRange
    /\ IF cfg.specialNumbers
       THEN /\ Len(set.bonus) = Field(cfg, "specialNumberCount", 0)
            /\ IsDistinct(set.bonus)
            /\ SeqToSet(set.bonus) \subseteq 1 .. Field(cfg, "specialNumberRange", 0)
       ELSE set.bonus = <<>>

\* generatePrediction is running or has just returned.
InPrediction ==
    \/ pc \in {"set", "special", "build", "finish", "predicted"}
    \/ pc = "loop" /\ caller \in {"numbers", "bonus"}

\* C20: the configuration of every lottery identifier, supported or not, asks
\* for no more numbers than its range holds, so no request of
\* generatePredictionSet is clamped; and every prediction set has exactly
\* numberCount distinct main numbers within 1..numberRange and, when the
\* configuration has special numbers, exactly specialNumberCount distinct bonus
\* numbers within 1..specialNumberRange, and no bonus numbers otherwise.
C20_SetsMatchConfiguration ==
    /\ \A lt \in supportedLotteries \cup LotteryInputs :
           FitsRange(getLotteryConfiguration(lt))
    /\ InPrediction => FitsRange(lotteryConfig)
    /\ (pc = "loop" /\ caller \in {"numbers", "bonus"}) => actualCount = count
    /\ \A set \in StoredSets : MatchesConfiguration(set, lotteryConfig)

\* A prediction for a lottery outside the supported list has been returned:
\* six sets of two main numbers and no bonus numbers.
C20_Witness ==
    /\ pc = "predicted"
    /\ ret.lotteryType \notin supportedLotteries
    /\ Cardinality(StoredSets) >= 2
    /\ \A set \in StoredSets : Len(set.numbers) = 2 /\ set.bonus = <<>>


\* str starts with the characters of prefix.
BeginsWith(str, prefix) ==
    Len(str) >= Len(prefix) /\ SubSeq(str, 1, Len(prefix)) = prefix

\* fetchPredictions has been called.
Fetched == lastFetch.loading # <<>>

\* C21: when generatePrediction throws inside fetchPredictions, error is a
\* non-null message beginning 'Failed to generate prediction:' and the
\* predictions map is left unchanged; every fetchPredictions first resets
\* error to null, so after a successful fetch error is null.
C21_FailureReported ==
    /\ [](lastFetch.threw =>
            error # None /\ BeginsWith(error, "Failed to generate prediction:"))
    /\ [](Fetched => Head(lastFetch.error) = None)
    /\ []((Fetched /\ ~lastFetch.threw) => error = None)
    /\ [][lastFetch'.threw => predictions' = predictions]_vars

\* The latest fetch threw while predictions of both other types are stored.
C21_Witness ==
    /\ lastFetch.threw
    /\ error = FailedToGenerate
    /\ DOMAIN predictions = {"emirates_mega7", "us_powerball"}

\* C22: every fetchPredictions sets loading to true first and to false last,
\* whether generatePrediction returns or throws; loading is false in every
\* state, as no state lies within a fetchPredictions call.
C22_LoadingBracketsFetch ==
    /\ loading = FALSE
    /\ Fetched =>
          /\ Head(lastFetch.loading) = TRUE
          /\ lastFetch.loading[Len(lastFetch.loading)] = FALSE
          /\ Len(lastFetch.loading) = 2

\* A fetch that threw has ended with loading false.
C22_Witness == lastFetch.threw /\ lastFetch.loading = <<TRUE, FALSE>> /\ ~loading

\* Lottery types asked of getExplainabilityData: the two the hook fetches and
\* one it never fetches.
ExplainedTypes == (HookLotteryInputs \ {Undefined}) \cup {"euro_millions"}

\* C23: a successful fetchPredictions(L) replaces only the entry of L in the
\* predictions map and leaves the result of every other lottery type as it
\* was; getExplainabilityData(T) is null exactly for the types T without a
\* stored prediction.
C23_OnlyFetchedEntryReplaced ==
    /\ [](\A T \in ExplainedTypes :
            (getExplainabilityData(T) = NoData) <=> (T \notin DOMAIN predictions))
    /\ [][predictions' # predictions =>
            LET L == lastFetch'.lotteryType
            IN  /\ ~lastFetch'.threw
                /\ DOMAIN predictions' = DOMAIN predictions \cup {L}
                /\ \A T \in DOMAIN predictions \ {L} :
                       predictions'[T] = predictions[T]]_vars

\* The latest fetch stored us_powerball next to an emirates_mega7 result;
\* euro_millions has none.
C23_Witness ==
    /\ lastFetch.lotteryType = "us_powerball"
    /\ ~lastFetch.threw
    /\ DOMAIN predictions = {"emirates_mega7", "us_powerball"}
    /\ getExplainabilityData("euro_millions") = NoData
    /\ getExplainabilityData("emirates_mega7") # NoData

\* C24: after any sequence of initializeDataSource, timer refreshes and
\* dispose, a lottery type has an entry in statsCache if and only if it has
\* one in dataCache, and the totalDraws of its statistics is the number of its
\* cached results.
C24_CachesConsistent ==
    /\ DOMAIN statsCache = DOMAIN dataCache
    /\ \A lt \in DOMAIN dataCache :
           /\ statsCache[lt].totalDraws = Len(dataCache[lt])
           /\ getLotteryStats(lt).totalDraws = Len(getLotteryResults(lt))

\* The caches were filled again after a dispose, while a refresh timer runs.
C24_Witness ==
    /\ disposed
    /\ DOMAIN dataCache = ServiceLotteryInputs
    /\ activeTimers # {}
    /\ statsCache["euro_millions"].totalDraws = 20

\* C25: the entropy score of the statistics kept for every cached set of
\* draws lies in the range 0..1 (0..100 hundredths).
C25_EntropyInUnitRange ==
    \A lt \in DOMAIN statsCache :
        statsCache[lt].entropyScore >= 0 /\ statsCache[lt].entropyScore <= 100


=========================================================================
